---- MODULE Spec2Model ----
(***************************************************************************)
(* GitBoard: the repository selection owned by App, and one metric fetch   *)
(* orchestrator (CommitChart, ContributorsChart or IssuesChart) observing  *)
(* it.  The three orchestrators share nothing but the `repos` prop, so a   *)
(* behaviour follows one of them, named by `metric`, through every         *)
(* instance React mounts for it (one per tokenVersion).                    *)
(*                                                                         *)
(* React scheduling: a click or key press renders synchronously and        *)
(* flushes passive effects before the handler returns, so a handler, the   *)
(* render it causes and the useEffect passes that render triggers are one  *)
(* action.  Promise callbacks and timer callbacks are actions of their     *)
(* own.  Queued setRepoData updaters are applied in call order.            *)
(***************************************************************************)
EXTENDS Integers, Sequences, FiniteSets, TLC

\* ---------------------------------------------------------------- bounds
\* Longest selection list (and longest list of entries in the URL).
MaxRepos == 2
\* Calls of the API client by the orchestrator followed, over a behaviour.
MaxFetches == 3
\* Number of token changes (each one remounts the orchestrators).
MaxTokenVersion == 1

\* ------------------------------------------------------------ input data
Null == "null"

\* ParsedRepo values; a/b and A/b are equal case-insensitively.
RepoUniverse ==
  { [owner |-> "a", name |-> "b"],
    [owner |-> "A", name |-> "b"],
    [owner |-> "c", name |-> "d"] }

toLowerCase(s) == IF s = "A" THEN "a" ELSE s

\* `${repo.owner}/${repo.name}`
KeyOf(repo) == repo.owner \o "/" \o repo.name

Keys == { KeyOf(r) : r \in RepoUniverse }

\* Text that is split or joined (the input field, the query string) is a
\* sequence of tokens: "/" and "," and their percent-encoded forms, the
\* prefix of a repository URL, and pieces of text without any of these.
UrlPrefix == "https://github.com/"
Marks == {"/", ",", "%2F", "%2C", UrlPrefix}
IsPiece(t) == t \notin Marks

\* The pieces of a sequence of tokens, put together as one string.
RECURSIVE Concat(_)
Concat(tokens) ==
  IF tokens = << >> THEN "" ELSE Head(tokens) \o Concat(Tail(tokens))

\* String.prototype.split(sep): the stretches between the separators.
RECURSIVE SplitAt(_, _)
SplitAt(tokens, sep) ==
  LET hits == { j \in 1..Len(tokens) : tokens[j] = sep }
  IN IF hits = {} THEN << tokens >>
     ELSE LET j == CHOOSE h \in hits : \A g \in hits : h <= g
          IN << SubSeq(tokens, 1, j - 1) >>
               \o SplitAt(SubSeq(tokens, j + 1, Len(tokens)), sep)

\* What the user can have typed into the input field.
Inputs ==
  { << "a", "/", "b" >>, << "A", "/", "b" >>, << "c", "/", "d" >>,
    << UrlPrefix, "c", "/", "d" >>, << >>, << "a", "/" >> }

\* parseRepoInput: `owner/name`, or a repository URL; << >> stands for
\* null, << repo >> for a ParsedRepo.
parseRepoInput(input) ==
  IF Len(input) = 3 /\ IsPiece(input[1]) /\ input[2] = "/" /\ IsPiece(input[3])
    THEN << [owner |-> input[1], name |-> input[3]] >>
  ELSE IF /\ Len(input) = 4 /\ input[1] = UrlPrefix
          /\ IsPiece(input[2]) /\ input[3] = "/" /\ IsPiece(input[4])
    THEN << [owner |-> input[2], name |-> input[4]] >>
  ELSE << >>

\* The validation messages of RepoInput.
InvalidFormat == "Invalid format. Use owner/repo or a GitHub URL"
AlreadyAdded == "Repository already added"

\* The series a fetch can resolve with: a reference to an array of weeks.
\* `value` stands for the metric's field (total, contributors, issues).
\* "s1" is one week longer than a year of weeks.
SeriesIds == {"s0", "s1", "s2"}

SeriesOf(id) ==
  CASE id = "s1" -> [n \in 1..53 |-> [week |-> n, value |-> n + 10]]
    [] id = "s2" -> << [week |-> 2, value |-> 7], [week |-> 3, value |-> 8],
                       [week |-> 4, value |-> 9] >>
    [] OTHER     -> << >>

\* What a fetch can be rejected with.
StatsComputingError == [kind |-> "computing", message |-> "computing"]
HardErrors == { [kind |-> "error", message |-> "Network error"] }
Errors == HardErrors \cup {StatsComputingError}

Metrics == {"commits", "contributors", "issues"}
Polls(m) == m # "issues"

Instances == 0..MaxTokenVersion

\* ------------------------------------------------------------- variables
VARIABLES
  metric,        \* the orchestrator followed
  repos,         \* App: useState<ParsedRepo[]>
  tokenVersion,  \* App: useState(0); names the mounted instance
  repoData,      \* per instance: Map<string, RepoData> in insertion order
  pollTimers,    \* per instance: the ref map key -> timer id
  timers,        \* per instance and key: timeouts pending in the browser
  inflight,      \* per instance and key: promises not yet settled
  fetchedRepos,  \* per instance: IssuesChart's ref set
  fetchCalls,    \* calls of the API client so far (a spy's call count)
  error,         \* RepoInput: useState<string | null>, the validation message
  history,       \* the tab's session history: the `repos` query parameter
                 \* of each entry; the last entry is window.location
  droppedComputing, \* history: keys removed from the selection while their
                 \* entry in the mounted instance was computing, and not
                 \* added again since
  storedToken,   \* the local persistence slot of the token
  isEditing,     \* TokenInput: useState(false)
  inputValue     \* TokenInput: useState(""), the text of the token field

vars == << metric, repos, tokenVersion, repoData, pollTimers, timers,
           inflight, fetchedRepos, fetchCalls, error, history,
           droppedComputing, storedToken, isEditing, inputValue >>

\* The state of TokenInput and of the slot it writes.
tokenVars == << storedToken, isEditing, inputValue >>

\* ------------------------------------------------ Map<string, RepoData>
\* A Map is the sequence of its entries in insertion order; each entry
\* carries its key.
MapHas(m, k) == \E j \in 1..Len(m) : m[j].key = k

MapGet(m, k) == m[CHOOSE j \in 1..Len(m) : m[j].key = k]

\* Map.set keeps the position of a key already present, else appends.
MapSet(m, k, e) ==
  IF MapHas(m, k)
    THEN [j \in 1..Len(m) |-> IF m[j].key = k THEN e ELSE m[j]]
    ELSE Append(m, e)

MapKeys(m) == { m[j].key : j \in 1..Len(m) }

EmptyMap == << >>

Entry(repo, data, message, loading, computing) ==
  [key |-> KeyOf(repo), repo |-> repo, data |-> data, error |-> message,
   loading |-> loading, computing |-> computing]

\* The state of one orchestrator instance.
FreshInstance ==
  [repoData     |-> EmptyMap,
   pollTimers   |-> [k \in Keys |-> "none"],
   timers       |-> [k \in Keys |-> 0],
   inflight     |-> [k \in Keys |-> 0],
   fetchedRepos |-> {}]

InstanceState(i) ==
  [repoData     |-> repoData[i],
   pollTimers   |-> pollTimers[i],
   timers       |-> timers[i],
   inflight     |-> inflight[i],
   fetchedRepos |-> fetchedRepos[i]]

\* ---------------------------------------------------- timers of a key
\* pollTimers[k] is "none" when the map has no key k, "pending" when the
\* id it holds is a timeout still pending, "fired" when that timeout has
\* already run (nothing removes the key when the callback runs).
\* timers[k] counts the pending timeouts of key k, recorded or not.

\* setTimeout(...); pollTimers.current.set(key, timer)
ScheduleRetry(s, key) ==
  [s EXCEPT !.timers[key] = @ + 1, !.pollTimers[key] = "pending"]

\* clearTimeout(pollTimers.current.get(key)); pollTimers.current.delete(key)
ClearTimer(s, key) ==
  [s EXCEPT !.timers[key] = IF s.pollTimers[key] = "pending" THEN @ - 1 ELSE @,
            !.pollTimers[key] = "none"]

\* for (const timer of pollTimers.current.values()) clearTimeout(timer);
\* pollTimers.current.clear()
ClearAllTimers(s) ==
  [s EXCEPT !.timers = [k \in Keys |->
                          IF s.pollTimers[k] = "pending" THEN @[k] - 1 ELSE @[k]],
            !.pollTimers = [k \in Keys |-> "none"]]

\* ------------------------------------------------------------ fetchRepo
\* CommitChart / ContributorsChart fetchRepo(repo, isRetry): the first
\* setRepoData updater and the call of the API client.
fetchRepoStats(s, repo, isRetry) ==
  LET key == KeyOf(repo)
      kept == IF MapHas(s.repoData, key) THEN MapGet(s.repoData, key).data
              ELSE Null
  IN [s EXCEPT !.repoData = MapSet(@, key,
                              Entry(repo, kept, Null, ~isRetry, isRetry)),
               !.inflight[key] = @ + 1]

\* IssuesChart fetchRepo(repo): guarded by the fetchedRepos ref.
fetchRepoIssues(s, repo) ==
  LET key == KeyOf(repo)
  IN IF key \in s.fetchedRepos
       THEN s
       ELSE [s EXCEPT !.fetchedRepos = @ \cup {key},
                      !.repoData = MapSet(@, key,
                                     Entry(repo, Null, Null, TRUE, FALSE)),
                      !.inflight[key] = @ + 1]

fetchRepo(m, s, repo, isRetry) ==
  IF Polls(m) THEN fetchRepoStats(s, repo, isRetry)
  ELSE fetchRepoIssues(s, repo)

\* ----------------------------------------------- the useEffect([repos])
\* Mutant of SkipFetch: every orchestrator skips whatever has an entry.
SkipFetchIfPresent(m, rendered, key) == MapHas(rendered, key)

\* The skip rule of the fetch loop, read from the rendered repoData.
SkipFetch(m, rendered, key) ==
  IF Polls(m)
    THEN /\ MapHas(rendered, key)
         /\ LET existing == MapGet(rendered, key)
            IN existing.data # Null \/ existing.loading \/ existing.computing
    ELSE MapHas(rendered, key)

\* repos.forEach(...) from position n on; `rendered` is the repoData of
\* the render that created the effect.
RECURSIVE FetchLoop(_, _, _, _, _)
FetchLoop(m, s, rs, rendered, n) ==
  IF n > Len(rs) THEN s
  ELSE FetchLoop(m,
                 IF SkipFetch(m, rendered, KeyOf(rs[n])) THEN s
                 ELSE fetchRepo(m, s, rs[n], FALSE),
                 rs, rendered, n + 1)

CurrentKeys(rs) == { KeyOf(rs[n]) : n \in 1..Len(rs) }

\* The updater that deletes the entries of removed repos (IssuesChart
\* also forgets them in fetchedRepos).
CleanRemoved(m, s, rs) ==
  LET gone == MapKeys(s.repoData) \ CurrentKeys(rs)
  IN [s EXCEPT !.repoData = SelectSeq(@, LAMBDA e : e.key \notin gone),
               !.fetchedRepos = IF Polls(m) THEN @ ELSE @ \ gone]

\* "Clear timers for removed repos".
ClearRemovedTimers(m, s, rs) ==
  IF Polls(m)
    THEN [s EXCEPT
            !.timers = [k \in Keys |->
                          IF k \notin CurrentKeys(rs) /\ s.pollTimers[k] = "pending"
                            THEN @[k] - 1 ELSE @[k]],
            !.pollTimers = [k \in Keys |->
                              IF k \notin CurrentKeys(rs) THEN "none" ELSE @[k]]]
    ELSE s

\* The function the effect returns; React runs it before the next pass of
\* the effect and when the instance unmounts.
EffectCleanup(m, s) == IF Polls(m) THEN ClearAllTimers(s) ELSE s

\* The body of the effect.
EffectBody(m, s, rs) ==
  ClearRemovedTimers(m, CleanRemoved(m, FetchLoop(m, s, rs, s.repoData, 1), rs), rs)

\* A change of `repos` on a mounted instance: cleanup, then the body.
Reconcile(m, s, rs) == EffectBody(m, EffectCleanup(m, s), rs)

\* Mounting an instance: fresh state, then the body.
Mount(m, rs) == EffectBody(m, FreshInstance, rs)

\* The calls of the API client made between instance states s and t.
RECURSIVE SumOver(_, _)
SumOver(S, f) ==
  IF S = {} THEN 0
  ELSE LET k == CHOOSE x \in S : TRUE IN f[k] + SumOver(S \ {k}, f)

Issued(s, t) == SumOver(Keys, t.inflight) - SumOver(Keys, s.inflight)

\* ----------------------------------------------------------------- Init
\* The `repos` query parameter of a location: whether the query string
\* has it, and its value as the query string spells it.
NoParam == [has |-> FALSE, raw |-> << >>]

\* The serialisation of a query string value by URLSearchParams.
percentEncode(tokens) ==
  [j \in 1..Len(tokens) |->
     CASE tokens[j] = "/" -> "%2F"
       [] tokens[j] = "," -> "%2C"
       [] OTHER -> tokens[j]]

\* The parsing of a query string value by URLSearchParams.
percentDecode(raw) ==
  [j \in 1..Len(raw) |->
     CASE raw[j] = "%2F" -> "/"
       [] raw[j] = "%2C" -> ","
       [] OTHER -> raw[j]]

\* The items a shared or hand-written URL can list.
UrlItems ==
  { << "a", "/", "b" >>, << "A", "/", "b" >>, << "c", "/", "d" >>, << "a" >>,
    << "/", "b" >>, << "c", "/", "d", "/", "e" >> }

\* Array.prototype.join(sep)
RECURSIVE Join(_, _)
Join(items, sep) ==
  IF items = << >> THEN << >>
  ELSE IF Len(items) = 1 THEN items[1]
  ELSE items[1] \o << sep >> \o Join(Tail(items), sep)

\* The locations the page can be loaded from: no parameter, or a list of
\* items spelled with or without percent-encoding.
UrlParams ==
  {NoParam} \cup
  UNION { { [has |-> TRUE, raw |-> Join(items, ",")],
            [has |-> TRUE, raw |-> percentEncode(Join(items, ","))] } :
          items \in UNION { [1..n -> UrlItems] : n \in 0..MaxRepos } }

\* .map(r => { const [owner, name] = r.split("/"); ... }).filter(...)
\* A part that split does not yield is undefined, falsy like "".
RECURSIVE DecodeItems(_)
DecodeItems(items) ==
  IF items = << >> THEN << >>
  ELSE LET parts == SplitAt(Head(items), "/")
           owner == Concat(parts[1])
           name  == IF Len(parts) >= 2 THEN Concat(parts[2]) ELSE ""
       IN IF owner # "" /\ name # ""
            THEN << [owner |-> owner, name |-> name] >> \o DecodeItems(Tail(items))
            ELSE DecodeItems(Tail(items))

getReposFromUrl(param) ==
  LET reposParam == percentDecode(param.raw)
  IN IF ~param.has \/ reposParam = << >> THEN << >>
     ELSE DecodeItems(SplitAt(reposParam, ","))

\* Mutant of updateUrl: the pairs are joined with ";".
updateUrlSemicolon(rs) ==
  IF Len(rs) = 0 THEN NoParam
  ELSE [has |-> TRUE,
        raw |-> percentEncode(
                  Join([n \in 1..Len(rs) |-> << rs[n].owner, "/", rs[n].name >>],
                       ";"))]

\* The parameter updateUrl gives the URL.
updateUrl(rs) ==
  IF Len(rs) = 0 THEN NoParam
  ELSE [has |-> TRUE,
        raw |-> percentEncode(
                  Join([n \in 1..Len(rs) |-> << rs[n].owner, "/", rs[n].name >>],
                       ","))]

\* Mutant of replaceState: the URL is pushed as a new entry.
pushState(h, url) == Append(h, url)

\* window.history.replaceState({}, "", url)
replaceState(h, url) == [h EXCEPT ![Len(h)] = url]

\* window.location
Location == history[Len(history)]

\* The slot with no token in it.
NoToken == [has |-> FALSE, value |-> << >>]

\* The page as loaded: App's state and the first pass of the effects.
AppInit ==
  /\ metric \in Metrics
  /\ \E param \in UrlParams :
       /\ repos = getReposFromUrl(param)
       /\ history = replaceState(<< param >>, updateUrl(getReposFromUrl(param)))
  /\ error = Null
  /\ droppedComputing = {}
  /\ tokenVersion = 0
  /\ LET s == Mount(metric, repos)
     IN /\ fetchCalls = Issued(FreshInstance, s)
        /\ repoData = [i \in Instances |-> IF i = 0 THEN s.repoData ELSE EmptyMap]
        /\ pollTimers = [i \in Instances |->
                           IF i = 0 THEN s.pollTimers ELSE FreshInstance.pollTimers]
        /\ timers = [i \in Instances |->
                       IF i = 0 THEN s.timers ELSE FreshInstance.timers]
        /\ inflight = [i \in Instances |->
                         IF i = 0 THEN s.inflight ELSE FreshInstance.inflight]
        /\ fetchedRepos = [i \in Instances |->
                             IF i = 0 THEN s.fetchedRepos ELSE {}]

\* Spec follows App and the orchestrators; of TokenInput it has the call
\* of onTokenChange only, and the component's own state stays as loaded.
Init ==
  /\ AppInit
  /\ storedToken = NoToken
  /\ isEditing = FALSE
  /\ inputValue = << >>

\* Writes the state of instance i.  setRepoData on an instance that is no
\* longer mounted is ignored by React; refs and timers stay live.
Store(i, s) ==
  /\ repoData' = [repoData EXCEPT ![i] = IF i = tokenVersion THEN s.repoData ELSE @]
  /\ pollTimers' = [pollTimers EXCEPT ![i] = s.pollTimers]
  /\ timers' = [timers EXCEPT ![i] = s.timers]
  /\ inflight' = [inflight EXCEPT ![i] = s.inflight]
  /\ fetchedRepos' = [fetchedRepos EXCEPT ![i] = s.fetchedRepos]

\* -------------------------------------------------------------- actions
\* setRepos and the effect passes the render triggers: App's updateUrl and
\* the pass of the mounted instance.
SetRepos(rs) ==
  LET s == Reconcile(metric, InstanceState(tokenVersion), rs)
  IN /\ fetchCalls + Issued(InstanceState(tokenVersion), s) <= MaxFetches
     /\ fetchCalls' = fetchCalls + Issued(InstanceState(tokenVersion), s)
     /\ repos' = rs
     /\ history' = replaceState(history, updateUrl(rs))
     /\ droppedComputing' =
          (droppedComputing \cup
             { k \in CurrentKeys(repos) :
                 /\ MapHas(repoData[tokenVersion], k)
                 /\ MapGet(repoData[tokenVersion], k).computing })
          \ CurrentKeys(rs)
     /\ Store(tokenVersion, s)
     /\ UNCHANGED << metric, tokenVersion, tokenVars >>

\* Mutant of isDuplicate: the comparison is case-sensitive.
isDuplicateExact(rs, parsed) ==
  \E n \in 1..Len(rs) : rs[n].owner = parsed.owner /\ rs[n].name = parsed.name

isDuplicate(rs, parsed) ==
  \E n \in 1..Len(rs) :
    /\ toLowerCase(rs[n].owner) = toLowerCase(parsed.owner)
    /\ toLowerCase(rs[n].name) = toLowerCase(parsed.name)

\* What RepoInput.handleAdd decides for the text in the input field: the
\* message it sets and whether it calls onAddRepo.
AddOutcome(rs, input) ==
  LET parsed == parseRepoInput(input)
  IN IF parsed = << >>
       THEN [error |-> InvalidFormat, added |-> << >>]
     ELSE IF isDuplicate(rs, parsed[1])
       THEN [error |-> AlreadyAdded, added |-> << >>]
     ELSE [error |-> Null, added |-> parsed]

\* RepoInput.handleAdd, and App.handleAddRepo when it is called.
handleAdd ==
  \E input \in Inputs :
    LET outcome == AddOutcome(repos, input)
    IN /\ error' = outcome.error
       /\ IF outcome.added = << >>
            THEN UNCHANGED << metric, repos, tokenVersion, repoData, pollTimers,
                              timers, inflight, fetchedRepos, fetchCalls,
                              history, droppedComputing, tokenVars >>
            ELSE /\ Len(repos) < MaxRepos
                 /\ SetRepos(Append(repos, outcome.added[1]))

\* Mutant of RemoveAt: the filter drops every entry with the key of the
\* entry at the position.
RemoveAtByKey(rs, index) ==
  IF index \in 1..Len(rs)
    THEN SelectSeq(rs, LAMBDA r : KeyOf(r) # KeyOf(rs[index]))
    ELSE rs

\* prev.filter((_, i) => i !== index), from position i on; positions are
\* counted from 1 here.
RECURSIVE FilterFrom(_, _, _)
FilterFrom(rs, index, i) ==
  IF i > Len(rs) THEN << >>
  ELSE (IF i # index THEN << rs[i] >> ELSE << >>) \o FilterFrom(rs, index, i + 1)

RemoveAt(rs, index) == FilterFrom(rs, index, 1)

handleRemoveRepo ==
  \E index \in 1..Len(repos) :
    /\ SetRepos(RemoveAt(repos, index))
    /\ UNCHANGED error

\* Mutant of OnResolve: the new map is built from the entry alone, not
\* from the previous map.
OnResolveFreshMap(m, s, repo, data) ==
  LET key == KeyOf(repo)
      t == IF Polls(m) THEN ClearTimer(s, key) ELSE s
  IN [t EXCEPT !.repoData = << Entry(repo, data, Null, FALSE, FALSE) >>]

\* .then((data) => ...)
OnResolve(m, s, repo, data) ==
  LET key == KeyOf(repo)
      t == IF Polls(m) THEN ClearTimer(s, key) ELSE s
  IN [t EXCEPT !.repoData = MapSet(@, key, Entry(repo, data, Null, FALSE, FALSE))]

\* Mutant of OnReject: the retry is scheduled whatever the error is.
OnRejectAlwaysRetry(m, s, repo, err) ==
  LET key == KeyOf(repo)
  IN IF Polls(m) /\ err.kind = "computing"
       THEN ScheduleRetry(
              [s EXCEPT !.repoData = MapSet(@, key,
                                       Entry(repo, Null, Null, FALSE, TRUE))],
              key)
       ELSE ScheduleRetry(
              [s EXCEPT !.repoData = MapSet(@, key,
                                       Entry(repo, Null, err.message, FALSE, FALSE))],
              key)

\* .catch((err) => ...)
OnReject(m, s, repo, err) ==
  LET key == KeyOf(repo)
  IN IF Polls(m) /\ err.kind = "computing"
       THEN ScheduleRetry(
              [s EXCEPT !.repoData = MapSet(@, key,
                                       Entry(repo, Null, Null, FALSE, TRUE))],
              key)
       ELSE [s EXCEPT !.repoData = MapSet(@, key,
                                     Entry(repo, Null, err.message, FALSE, FALSE))]

Settle(s, key) == [s EXCEPT !.inflight[key] = @ - 1]

Resolve ==
  \E i \in Instances, repo \in RepoUniverse, data \in SeriesIds :
    /\ inflight[i][KeyOf(repo)] > 0
    /\ Store(i, OnResolve(metric, Settle(InstanceState(i), KeyOf(repo)), repo, data))
    /\ UNCHANGED << metric, repos, tokenVersion, fetchCalls, error, history,
                    droppedComputing, tokenVars >>

Reject ==
  \E i \in Instances, repo \in RepoUniverse, err \in Errors :
    /\ inflight[i][KeyOf(repo)] > 0
    /\ Store(i, OnReject(metric, Settle(InstanceState(i), KeyOf(repo)), repo, err))
    /\ UNCHANGED << metric, repos, tokenVersion, fetchCalls, error, history,
                    droppedComputing, tokenVars >>

\* A pending timeout of key runs: () => fetchRepo(repo, true).  The
\* timeout is the one pollTimers records, or one it no longer records.
OnTimer(m, s, repo, recorded) ==
  LET key == KeyOf(repo)
      t == [s EXCEPT !.timers[key] = @ - 1,
                     !.pollTimers[key] = IF recorded THEN "fired" ELSE @]
  IN fetchRepo(m, t, repo, TRUE)

\* `limit` bounds the calls of the API client.
TimerFiresWithin(limit) ==
  \E i \in Instances, repo \in RepoUniverse, recorded \in BOOLEAN :
    LET key == KeyOf(repo)
    IN /\ IF recorded THEN pollTimers[i][key] = "pending"
          ELSE timers[i][key] > (IF pollTimers[i][key] = "pending" THEN 1 ELSE 0)
       /\ fetchCalls < limit
       /\ Store(i, OnTimer(metric, InstanceState(i), repo, recorded))
       /\ fetchCalls' = fetchCalls + Issued(InstanceState(i), OnTimer(metric, InstanceState(i), repo, recorded))
       /\ UNCHANGED << metric, repos, tokenVersion, error, history,
                       droppedComputing, tokenVars >>

TimerFires == TimerFiresWithin(MaxFetches)

\* The prop TokenInput calls, App.handleTokenChange:
\* the keys of the charts change, React unmounts the mounted instance (its
\* effect cleanup runs, its state is dropped) and mounts a new one.
onTokenChange ==
  /\ tokenVersion < MaxTokenVersion
  /\ LET old == EffectCleanup(metric, InstanceState(tokenVersion))
         new == Mount(metric, repos)
     IN /\ fetchCalls + Issued(FreshInstance, new) <= MaxFetches
        /\ fetchCalls' = fetchCalls + Issued(FreshInstance, new)
        /\ tokenVersion' = tokenVersion + 1
        /\ repoData' = [repoData EXCEPT ![tokenVersion] = EmptyMap,
                                        ![tokenVersion + 1] = new.repoData]
        /\ pollTimers' = [pollTimers EXCEPT ![tokenVersion] = old.pollTimers,
                                            ![tokenVersion + 1] = new.pollTimers]
        /\ timers' = [timers EXCEPT ![tokenVersion] = old.timers,
                                    ![tokenVersion + 1] = new.timers]
        /\ inflight' = [inflight EXCEPT ![tokenVersion + 1] = new.inflight]
        /\ fetchedRepos' = [fetchedRepos EXCEPT ![tokenVersion + 1] = new.fetchedRepos]
  /\ droppedComputing' = {}
  /\ UNCHANGED << metric, repos, error, history >>

\* Mutant of handleTokenChange: the keys of the charts do not change, so
\* the instance stays mounted and keeps its state under the new version.
handleTokenChangeKeepsInstance ==
  /\ tokenVersion < MaxTokenVersion
  /\ tokenVersion' = tokenVersion + 1
  /\ repoData' = [repoData EXCEPT ![tokenVersion] = EmptyMap,
                                  ![tokenVersion + 1] = repoData[tokenVersion]]
  /\ pollTimers' = [pollTimers EXCEPT ![tokenVersion] = FreshInstance.pollTimers,
                                      ![tokenVersion + 1] = pollTimers[tokenVersion]]
  /\ timers' = [timers EXCEPT ![tokenVersion] = FreshInstance.timers,
                              ![tokenVersion + 1] = timers[tokenVersion]]
  /\ inflight' = [inflight EXCEPT ![tokenVersion] = FreshInstance.inflight,
                                  ![tokenVersion + 1] = inflight[tokenVersion]]
  /\ fetchedRepos' = [fetchedRepos EXCEPT ![tokenVersion] = {},
                                          ![tokenVersion + 1] = fetchedRepos[tokenVersion]]
  /\ droppedComputing' = {}
  /\ UNCHANGED << metric, repos, fetchCalls, error, history, tokenVars >>

\* App.handleTokenChange as the orchestrators see it, whichever handler
\* of TokenInput called it.
handleTokenChange == onTokenChange /\ UNCHANGED tokenVars

Next ==
  \/ handleAdd
  \/ handleRemoveRepo
  \/ handleTokenChange
  \/ Resolve
  \/ Reject
  \/ TimerFires

Spec == Init /\ [][Next]_vars

\* RetrySpec follows the orchestrator of a selection that does not change:
\* the responses and the retry timers, with room for one more call of the
\* API client than Spec has.
MaxRetryFetches == 4

RetryTimerFires == TimerFiresWithin(MaxRetryFetches)

RetryNext ==
  \/ Resolve
  \/ Reject
  \/ RetryTimerFires

RetrySpec == Init /\ [][RetryNext]_vars

\* ------------------------------------------------------------ TokenInput
\* The text of the token field is the sequence of its characters.
MaxTokenLen == 3

Whitespace == {" ", "\t"}

TokenChars == Whitespace \cup {"x"}

\* What can be typed or pasted into the field.
TokenTexts == UNION { [1..n -> TokenChars] : n \in 0..MaxTokenLen }

RECURSIVE trimStart(_)
trimStart(text) ==
  IF text # << >> /\ Head(text) \in Whitespace THEN trimStart(Tail(text))
  ELSE text

RECURSIVE trimEnd(_)
trimEnd(text) ==
  IF text # << >> /\ text[Len(text)] \in Whitespace
    THEN trimEnd(SubSeq(text, 1, Len(text) - 1))
    ELSE text

\* Mutant of trim: only the leading whitespace is removed.
trimStartOnly(text) == trimStart(text)

\* String.prototype.trim
trim(text) == trimEnd(trimStart(text))

\* A string or null: << >> is null, << text >> is the string.
\* `trimmed || null`: the empty string is falsy.
orNull(text) == IF text = << >> THEN << >> ELSE << text >>

\* setStoredToken(token): null or the empty string removes the stored
\* value, any other string replaces it.
setStoredToken(token) ==
  IF token = << >> \/ token[1] = << >> THEN NoToken
  ELSE [has |-> TRUE, value |-> token[1]]

\* getStoredToken(): the stored string, or null.
getStoredToken(slot) == IF slot.has THEN << slot.value >> ELSE << >>

\* const hasToken = !!getStoredToken()
hasToken ==
  getStoredToken(storedToken) # << >> /\ getStoredToken(storedToken)[1] # << >>

\* The slot as the page can find it: empty, or holding a token saved by an
\* earlier visit.
StoredTokens == { NoToken, setStoredToken(<< << "x" >> >>) }

\* "Add token" / "Change": onClick={() => setIsEditing(true)}
startEditing ==
  /\ ~isEditing
  /\ isEditing' = TRUE
  /\ UNCHANGED << metric, repos, tokenVersion, repoData, pollTimers, timers,
                  inflight, fetchedRepos, fetchCalls, error, history,
                  droppedComputing, storedToken, inputValue >>

\* onChange={(e) => setInputValue(e.target.value)}; the field is rendered
\* while editing.
onChange ==
  /\ isEditing
  /\ \E text \in TokenTexts : inputValue' = text
  /\ UNCHANGED << metric, repos, tokenVersion, repoData, pollTimers, timers,
                  inflight, fetchedRepos, fetchCalls, error, history,
                  droppedComputing, storedToken, isEditing >>

\* The Save button and the Enter key, rendered while editing.
handleSave ==
  /\ isEditing
  /\ LET trimmed == trim(inputValue)
     IN storedToken' = setStoredToken(orNull(trimmed))
  /\ inputValue' = << >>
  /\ isEditing' = FALSE
  /\ onTokenChange

\* The Remove button, rendered while not editing and a token is stored.
handleClear ==
  /\ ~isEditing /\ hasToken
  /\ storedToken' = setStoredToken(<< >>)
  /\ inputValue' = << >>
  /\ isEditing' = FALSE
  /\ onTokenChange

\* The Cancel button and the Escape key, rendered while editing.
handleCancel ==
  /\ isEditing
  /\ inputValue' = << >>
  /\ isEditing' = FALSE
  /\ UNCHANGED << metric, repos, tokenVersion, repoData, pollTimers, timers,
                  inflight, fetchedRepos, fetchCalls, error, history,
                  droppedComputing, storedToken >>

\* TokenSpec follows TokenInput: its handlers, and App's handler they call.
TokenInit ==
  /\ AppInit
  /\ storedToken \in StoredTokens
  /\ isEditing = FALSE
  /\ inputValue = << >>

TokenNext ==
  \/ startEditing
  \/ onChange
  \/ handleSave
  \/ handleClear
  \/ handleCancel

TokenSpec == TokenInit /\ [][TokenNext]_vars

\* ---------------------------------------------------------------- render
\* What the mounted instance renders from repoData and repos.

\* The last 52 weeks shown by ContributorsChart: slice(-52).
WeekWindow == 52

Slice(series, n) ==
  IF Len(series) <= n THEN series
  ELSE SubSeq(series, Len(series) - n + 1, Len(series))

HasData(e) == e.data # Null

\* Mutant of baseRepoData: the length test is dropped.
baseRepoDataAnyLength(m) ==
  LET hits == { j \in 1..Len(m) : HasData(m[j]) }
  IN IF hits = {} THEN 0 ELSE CHOOSE j \in hits : \A h \in hits : j <= h

\* Array.from(repoData.values()).find((d) => d.data && d.data.length > 0):
\* the position of the base entry in the map, 0 when there is none.
baseRepoData(m) ==
  LET hits == { j \in 1..Len(m) : HasData(m[j]) /\ Len(SeriesOf(m[j].data)) > 0 }
  IN IF hits = {} THEN 0 ELSE CHOOSE j \in hits : \A h \in hits : j <= h

\* The weeks the rows are made from.
BaseWeeks(mt, m) ==
  LET base == baseRepoData(m)
  IN IF base = 0 THEN << >>
     ELSE IF mt = "contributors"
            THEN Slice(SeriesOf(m[base].data), WeekWindow)
            ELSE SeriesOf(m[base].data)

\* data.find((w) => w.week === week): the position of the first match, or 0.
FindWeek(series, week) ==
  LET hits == { j \in 1..Len(series) : series[j].week = week }
  IN IF hits = {} THEN 0 ELSE CHOOSE j \in hits : \A h \in hits : j <= h

\* Whether the row of `week`, the index-th row, gets a column for key.
HasColumn(mt, m, key, week, index) ==
  /\ MapHas(m, key)
  /\ HasData(MapGet(m, key))
  /\ CASE mt = "commits"      -> index <= Len(SeriesOf(MapGet(m, key).data))
       [] mt = "contributors" -> FindWeek(SeriesOf(MapGet(m, key).data), week) # 0
       [] OTHER               -> TRUE

\* The value of that column.
ColumnValue(mt, m, key, week, index) ==
  LET series == SeriesOf(MapGet(m, key).data)
      weekData == FindWeek(series, week)
  IN CASE mt = "commits" -> series[index].value
       [] OTHER -> IF weekData = 0 THEN 0 ELSE series[weekData].value

\* One ChartDataPoint: the timestamp and the columns keyed by repository.
Point(mt, m, rs, week, index) ==
  [weekTimestamp |-> week,
   cols |-> [key \in { k \in CurrentKeys(rs) : HasColumn(mt, m, k, week, index) }
               |-> ColumnValue(mt, m, key, week, index)]]

\* Mutant of chartData: the rows are pushed newest week first.
chartDataNewestFirst(mt, m, rs) ==
  LET weeks == BaseWeeks(mt, m)
  IN [index \in 1..Len(weeks) |->
        Point(mt, m, rs, weeks[Len(weeks) + 1 - index].week,
              Len(weeks) + 1 - index)]

chartData(mt, m, rs) ==
  LET weeks == BaseWeeks(mt, m)
  IN [index \in 1..Len(weeks) |-> Point(mt, m, rs, weeks[index].week, index)]

\* Mutant of isLoading: an entry counts as loading until it has data.
isLoadingUntilData(m) == \E j \in 1..Len(m) : m[j].loading \/ ~HasData(m[j])

isLoading(m) == \E j \in 1..Len(m) : m[j].loading

computingRepos(m) ==
  LET c == SelectSeq(m, LAMBDA d : d.computing)
  IN [j \in 1..Len(c) |-> KeyOf(c[j].repo)]

errors(m) ==
  LET f == SelectSeq(m, LAMBDA d : d.error # Null)
  IN [j \in 1..Len(f) |-> [repo |-> KeyOf(f[j].repo), error |-> f[j].error]]

\* The panels of the card; with an empty selection the component returns
\* the "Add repositories" card and none of them.
ShowsLoading(m, rs) == Len(rs) > 0 /\ isLoading(m)

ShowsChart(mt, m, rs) ==
  Len(rs) > 0 /\ ~isLoading(m) /\ Len(chartData(mt, m, rs)) > 0

\* chartData.length: the loop pushes one point per week of the base.
RowCount(mt, m, rs) == Len(BaseWeeks(mt, m))

\* Mutant of ShowsNoData: CommitChart and ContributorsChart do not test
\* computingRepos either.
ShowsNoDataWhileComputing(mt, m, rs) ==
  Len(rs) > 0 /\ ~isLoading(m) /\ RowCount(mt, m, rs) = 0

\* "No commit data available" / "No contributor data available" / "No issue
\* data available"; IssuesChart tests neither computingRepos nor anything
\* in its place.
ShowsNoData(mt, m, rs) ==
  /\ Len(rs) > 0 /\ ~isLoading(m) /\ RowCount(mt, m, rs) = 0
  /\ (Polls(mt) => Len(computingRepos(m)) = 0)

\* "Waiting for GitHub to compute stats..."; IssuesChart has no such panel.
ShowsWaiting(mt, m, rs) ==
  /\ Polls(mt)
  /\ Len(rs) > 0 /\ ~isLoading(m) /\ RowCount(mt, m, rs) = 0
  /\ Len(computingRepos(m)) > 0

\* The names in "Computing stats for ..."; IssuesChart has no such line.
ShownComputing(mt, m, rs) ==
  IF Polls(mt) /\ Len(rs) > 0 THEN computingRepos(m) ELSE << >>

\* The lines `repo: error` above the panels.
ShownErrors(m, rs) == IF Len(rs) > 0 THEN errors(m) ELSE << >>

\* The mounted instance's view.
Rendered == repoData[tokenVersion]
Chart == chartData(metric, Rendered, repos)
Selected == CurrentKeys(repos)
Entries(k) == SelectSeq(Rendered, LAMBDA e : e.key = k)
IsReady(k) ==
  /\ MapHas(Rendered, k)
  /\ HasData(MapGet(Rendered, k))
  /\ Len(SeriesOf(MapGet(Rendered, k).data)) > 0
IsFailed(k) == MapHas(Rendered, k) /\ MapGet(Rendered, k).error # Null
IsComputing(k) == MapHas(Rendered, k) /\ MapGet(Rendered, k).computing
\* A call of the API client for key k by instance i in this step.
FetchIssued(i, k) == inflight'[i][k] > inflight[i][k]
\* A response for key k settled at instance i in this step.
Settled(i, k) == inflight'[i][k] < inflight[i][k]

\* ---------------------------------------------------------------- claims

\* C1: in every state (each is reached after the reconciliation pass of
\* the current selection), the keys with a state entry in the mounted
\* orchestrator are exactly the selected repositories, and no retry timer
\* is pending for a repository that is not selected.
C1_Binding ==
  /\ MapKeys(Rendered) = Selected
  /\ \A k \in Keys \ Selected : timers[tokenVersion][k] = 0

\* C2: when a fetch settles for a repository that is not selected, the
\* mounted orchestrator's entry for that repository is neither created nor
\* modified and no retry timer is scheduled for it.
C2_StaleDiscarded ==
  [][\A k \in Keys :
       (k \notin Selected /\ Settled(tokenVersion, k))
         => /\ SelectSeq(repoData'[tokenVersion], LAMBDA e : e.key = k) = Entries(k)
            /\ timers'[tokenVersion][k] <= timers[tokenVersion][k]]_vars

\* C3: in CommitChart and ContributorsChart, a selected repository whose
\* entry is computing always has its next fetch on the way: its retry
\* timer is pending or its retry request is in flight, whatever else was
\* added or removed in the meantime.
C3_PollingContinues ==
  Polls(metric) =>
    \A k \in Selected :
      IsComputing(k) => (timers[tokenVersion][k] > 0 \/ inflight[tokenVersion][k] > 0)

\* C4: after a repository is removed while computing, the orchestrator
\* issues no fetch for it until it is added again.
C4_RemovalCancelsPolling ==
  [][\A k \in droppedComputing \cap droppedComputing' :
       ~FetchIssued(tokenVersion, k)]_vars

\* C5: an unmounted instance fires no retry timer and issues no fetch (a
\* retry timer that fires issues a fetch, so the second covers the first).
C5_Teardown ==
  [][\A i \in Instances : \A k \in Keys :
       i < tokenVersion => ~FetchIssued(i, k)]_vars

\* C6: the mounted orchestrator never has two fetches in flight for one
\* key, and a reconciliation pass issues no fetch for a repository that has
\* a fetch in flight, a retry timer pending or a Ready series.
C6_NoDuplicateFetch ==
  /\ [](\A k \in Keys : inflight[tokenVersion][k] <= 1)
  /\ [][\A k \in Keys :
          (repos' # repos /\ FetchIssued(tokenVersion, k))
            => /\ inflight[tokenVersion][k] = 0
               /\ timers[tokenVersion][k] = 0
               /\ ~(MapHas(Rendered, k) /\ HasData(MapGet(Rendered, k)))]_vars

\* C7 as stated: in every orchestrator, no fetch is issued for a repository
\* whose entry is Failed while it stays in the selection.
C7_NoRetryAfterError ==
  [][\A k \in Selected \cap CurrentKeys(repos') :
       IsFailed(k) => ~FetchIssued(tokenVersion, k)]_vars

\* C7 amended: IssuesChart issues no fetch for a Failed repository that
\* stays selected; in CommitChart and ContributorsChart every
\* reconciliation pass that keeps a Failed repository selected fetches it
\* again.
C7_RetryOnlyByReconcile ==
  [][\A k \in Selected \cap CurrentKeys(repos') :
       IsFailed(k) =>
         IF Polls(metric)
           THEN repos' # repos => FetchIssued(tokenVersion, k)
           ELSE ~FetchIssued(tokenVersion, k)]_vars

\* C7 witness: CommitChart or ContributorsChart has fetched a/b again (its
\* third call) in the pass that added c/d.
C7_Witness ==
  /\ Polls(metric)
  /\ tokenVersion = 0
  /\ Len(repos) = 2
  /\ KeyOf(repos[1]) = "a/b" /\ KeyOf(repos[2]) = "c/d"
  /\ fetchCalls = 3
  /\ inflight[0]["a/b"] = 1 /\ inflight[0]["c/d"] = 1
  /\ MapGet(Rendered, "a/b").loading

\* The week timestamps of the rows of the merged dataset.
WeekAxis ==
  LET chart == Chart IN [n \in 1..Len(chart) |-> chart[n].weekTimestamp]

\* The weeks of repository k's series, as the rows show them.
ShownWeeks(k) ==
  LET series == SeriesOf(MapGet(Rendered, k).data)
      shown == IF metric = "contributors" THEN Slice(series, WeekWindow) ELSE series
  IN [n \in 1..Len(shown) |-> shown[n].week]

\* The selection is two distinct repositories, f Failed and r Ready with a
\* non-empty series.
OneFailedOneReady(f, r) ==
  /\ Len(repos) = 2
  /\ Selected = {f, r}
  /\ f # r
  /\ IsFailed(f)
  /\ IsReady(r)

\* C8: with two repositories selected, one Failed and one Ready with a
\* non-empty series, the rows are the weeks of the Ready series, each row
\* has a column for the Ready repository and none for the Failed one, the
\* Failed repository's message is listed and the chart is displayed; and a
\* response for one key leaves every other key's entry as it was.
C8_FailureIsolation ==
  /\ [](\A f, r \in Keys :
          OneFailedOneReady(f, r) =>
            /\ WeekAxis = ShownWeeks(r)
            /\ LET chart == Chart
               IN \A n \in 1..Len(chart) :
                    r \in DOMAIN chart[n].cols /\ f \notin DOMAIN chart[n].cols
            /\ \E n \in 1..Len(errors(Rendered)) :
                 errors(Rendered)[n] =
                   [repo |-> f, error |-> MapGet(Rendered, f).error]
            /\ ShowsChart(metric, Rendered, repos))
  /\ [][\A k, other \in Keys :
          (Settled(tokenVersion, k) /\ other # k)
            => SelectSeq(repoData'[tokenVersion], LAMBDA e : e.key = other)
                 = Entries(other)]_vars

C8_Witness ==
  /\ OneFailedOneReady("a/b", "c/d")
  /\ Len(Chart) = 3
  /\ fetchCalls = 2

\* C9 as stated: the chart is displayed whenever a selected repository is
\* Ready with a non-empty series.
C9_PartialAlways ==
  (\E k \in Selected : IsReady(k)) => ShowsChart(metric, Rendered, repos)

\* C9 amended: the chart is displayed whenever a selected repository is
\* Ready with a non-empty series and no entry is loading, whatever the
\* state (Computing or Failed) of the others.
C9_PartialWhenNotLoading ==
  ((\E k \in Selected : IsReady(k)) /\ ~isLoading(Rendered))
    => ShowsChart(metric, Rendered, repos)

\* C9 witness: the chart is shown for c/d, Ready with a non-empty series,
\* while a/b is Computing.
C9_Witness ==
  /\ repos = << [owner |-> "a", name |-> "b"], [owner |-> "c", name |-> "d"] >>
  /\ IsComputing("a/b")
  /\ IsReady("c/d")
  /\ ShowsChart(metric, Rendered, repos)

\* The first selected repository, in selection order, that is Ready with a
\* non-empty series: its position in repos, or 0.
FirstReady ==
  LET hits == { n \in 1..Len(repos) : IsReady(KeyOf(repos[n])) }
  IN IF hits = {} THEN 0 ELSE CHOOSE n \in hits : \A h \in hits : n <= h

\* C10: the week axis of the merged dataset is that of the first selected
\* repository, in selection order, that is Ready with a non-empty series,
\* and the dataset is empty when there is none.
C10_BaseChoice ==
  IF FirstReady = 0 THEN Chart = << >>
  ELSE WeekAxis = ShownWeeks(KeyOf(repos[FirstReady]))

\* C11: the aligner's base is never the entry of a repository that is not
\* selected (also after a response for a removed repository), and the
\* merged dataset is empty right after the removal of the only selected
\* repository that was Ready.
C11_BaseAfterRemoval ==
  /\ [](baseRepoData(Rendered) # 0
          => Rendered[baseRepoData(Rendered)].key \in Selected)
  /\ [][\A k \in Selected :
          (/\ IsReady(k)
           /\ \A o \in Selected \ {k} : ~IsReady(o)
           /\ k \notin CurrentKeys(repos'))
            => chartData(metric, repoData'[tokenVersion], repos') = << >>]_vars

\* C12: in every row, the column of a selected repository whose series has
\* a point for the row's week holds the value of that point.
C12_AlignByTimestamp ==
  LET chart == Chart
  IN \A k \in Selected :
       (MapHas(Rendered, k) /\ HasData(MapGet(Rendered, k)))
         => LET series == SeriesOf(MapGet(Rendered, k).data)
            IN \A n \in 1..Len(chart) : \A j \in 1..Len(series) :
                 series[j].week = chart[n].weekTimestamp
                   => /\ k \in DOMAIN chart[n].cols
                      /\ chart[n].cols[k] = series[j].value

\* C13: in a row whose week a selected Ready repository has no point for,
\* IssuesChart gives the repository's column the value 0 while CommitChart
\* and ContributorsChart give the row no column for it; a selected
\* repository without a series has no column in any row.
C13_MissingValue ==
  LET chart == Chart
  IN \A k \in Selected :
       IF MapHas(Rendered, k) /\ HasData(MapGet(Rendered, k))
         THEN LET series == SeriesOf(MapGet(Rendered, k).data)
              IN \A n \in 1..Len(chart) :
                   (\A j \in 1..Len(series) : series[j].week # chart[n].weekTimestamp)
                     => IF metric = "issues"
                          THEN k \in DOMAIN chart[n].cols /\ chart[n].cols[k] = 0
                          ELSE k \notin DOMAIN chart[n].cols
         ELSE \A n \in 1..Len(chart) : k \notin DOMAIN chart[n].cols

\* C14: the merged dataset of CommitChart and of ContributorsChart has at
\* most 52 rows, and its rows are the most recent weeks of the base series.
C14_WeekWindow ==
  (metric \in {"commits", "contributors"} /\ baseRepoData(Rendered) # 0)
    => LET series == SeriesOf(Rendered[baseRepoData(Rendered)].data)
           axis == WeekAxis
       IN /\ Len(axis) <= 52
          /\ Len(axis) = IF Len(series) < 52 THEN Len(series) ELSE 52
          /\ \A n \in 1..Len(axis) :
               axis[n] = series[Len(series) - Len(axis) + n].week

\* Equality of two names but for the case of their letters.
SameIgnoringCase(x, y) == x = y \/ {x, y} = {"a", "A"}

\* The text names no repository, or one that the list has already, the
\* case of letters ignored.
Rejectable(rs, input) ==
  \/ parseRepoInput(input) = << >>
  \/ \E n \in 1..Len(rs) :
       /\ SameIgnoringCase(rs[n].owner, parseRepoInput(input)[1].owner)
       /\ SameIgnoringCase(rs[n].name, parseRepoInput(input)[1].name)

\* C15: for every text of the input field, handleAdd sets a validation
\* message and does not call onAddRepo when the text fails parsing or names
\* a repository already in the list (case ignored), and otherwise adds the
\* parsed repository; a step that sets a validation message leaves the
\* selection and the orchestrator as they were and issues no fetch; and a
\* step that makes the selection longer appends one repository at its end.
C15_RejectedAdd ==
  /\ [](\A input \in Inputs :
          LET outcome == AddOutcome(repos, input)
          IN IF Rejectable(repos, input)
               THEN outcome.added = << >> /\ outcome.error # Null
               ELSE outcome.added = parseRepoInput(input) /\ outcome.error = Null)
  /\ [][(error' # Null /\ error' # error)
          => /\ repos' = repos
             /\ repoData' = repoData
             /\ fetchCalls' = fetchCalls
             /\ \A i \in Instances : \A k \in Keys : ~FetchIssued(i, k)]_vars
  /\ [][Len(repos') > Len(repos)
          => /\ Len(repos') = Len(repos) + 1
             /\ SubSeq(repos', 1, Len(repos)) = repos
             /\ error' = Null]_vars

\* C15 witness: with A/b selected, the add of a/b was rejected as a
\* duplicate.
C15_Witness ==
  /\ repos = << [owner |-> "A", name |-> "b"] >>
  /\ error = AlreadyAdded
  /\ MapKeys(Rendered) = {"A/b"}

\* C16: the selection never has two entries whose owner and name are equal
\* but for the case of letters.
C16_Deduplicated ==
  \A m, n \in 1..Len(repos) :
    m # n => ~(/\ SameIgnoringCase(repos[m].owner, repos[n].owner)
               /\ SameIgnoringCase(repos[m].name, repos[n].name))

\* C17: decoding the location that updateUrl has written gives the
\* selection back, in order; the empty selection gives the empty list.
C17_RoundTrip == getReposFromUrl(Location) = repos

\* C17 witness: IssuesChart has made three calls, so a repository was added
\* after the load, and the location written for A/b, c/d decodes to them.
C17_Witness ==
  /\ metric = "issues" /\ tokenVersion = 0 /\ fetchCalls = 3
  /\ repos = << [owner |-> "A", name |-> "b"], [owner |-> "c", name |-> "d"] >>
  /\ Location.raw = << "A", "%2F", "b", "%2C", "c", "%2F", "d" >>
  /\ getReposFromUrl(Location) = repos

\* The comma-joined owner/name pairs of the list rs, token by token.
JoinedPairs(rs) ==
  [j \in 1..(IF Len(rs) = 0 THEN 0 ELSE 4 * Len(rs) - 1) |->
     CASE j % 4 = 1 -> rs[(j + 3) \div 4].owner
       [] j % 4 = 2 -> "/"
       [] j % 4 = 3 -> rs[(j + 1) \div 4].name
       [] OTHER     -> ","]

\* C18: the location has the repos parameter exactly when the selection is
\* not empty, its value is the comma-joined owner/name pairs of the
\* selection in order, and the session history never gets another entry.
C18_UrlSync ==
  /\ Location.has = (Len(repos) > 0)
  /\ percentDecode(Location.raw) = JoinedPairs(repos)
  /\ Len(history) = 1

\* C18 witness: the location after the selection went from two
\* repositories to c/d alone (IssuesChart made two calls).
C18_Witness ==
  /\ metric = "issues" /\ tokenVersion = 0 /\ fetchCalls = 2
  /\ repos = << [owner |-> "c", name |-> "d"] >>
  /\ history = << [has |-> TRUE, raw |-> << "c", "%2F", "d" >>] >>

\* C19: removing at a position of the list gives the list without that
\* position, the other entries in their order; removing at a position
\* outside the list gives the list unchanged; and a step that makes the
\* selection shorter removes one position.
C19_RemoveByPosition ==
  /\ [](\A index \in 0..(MaxRepos + 1) :
          LET out == RemoveAt(repos, index)
          IN IF index \in 1..Len(repos)
               THEN /\ Len(out) = Len(repos) - 1
                    /\ \A n \in 1..Len(out) :
                         out[n] = IF n < index THEN repos[n] ELSE repos[n + 1]
               ELSE out = repos)
  /\ [][Len(repos') < Len(repos)
          => \E index \in 1..Len(repos) :
               /\ Len(repos') = Len(repos) - 1
               /\ \A n \in 1..Len(repos') :
                    repos'[n] = IF n < index THEN repos[n] ELSE repos[n + 1]]_vars

\* C19 witness: IssuesChart has made two calls and a/b alone is selected,
\* so the other repository was removed.
C19_Witness ==
  /\ metric = "issues" /\ tokenVersion = 0 /\ fetchCalls = 2
  /\ repos = << [owner |-> "a", name |-> "b"] >>
  /\ MapKeys(Rendered) = {"a/b"}

\* C20: a token change makes tokenVersion one more and mounts a new
\* instance whose state has exactly one entry per selected repository,
\* Loading and without data or message, no timer, and a fetch of its own in
\* flight for every selected repository and for no other; and a response
\* or a timer of an unmounted instance changes nothing of the mounted one.
C20_TokenReset ==
  /\ [][tokenVersion' # tokenVersion
          => /\ tokenVersion' = tokenVersion + 1
             /\ MapKeys(repoData'[tokenVersion']) = CurrentKeys(repos')
             /\ \A j \in 1..Len(repoData'[tokenVersion']) :
                  LET e == repoData'[tokenVersion'][j]
                  IN e.loading /\ ~e.computing /\ e.data = Null /\ e.error = Null
             /\ \A k \in Keys :
                  /\ timers'[tokenVersion'][k] = 0
                  /\ pollTimers'[tokenVersion'][k] = "none"
                  /\ inflight[tokenVersion'][k] = 0
                  /\ (inflight'[tokenVersion'][k] > 0) = (k \in CurrentKeys(repos'))
             /\ fetchCalls' >= fetchCalls + Cardinality(CurrentKeys(repos'))]_vars
  /\ [][\A i \in Instances : \A k \in Keys :
          (i < tokenVersion /\ (Settled(i, k) \/ FetchIssued(i, k)))
            => /\ repoData'[tokenVersion] = repoData[tokenVersion]
               /\ timers'[tokenVersion] = timers[tokenVersion]
               /\ pollTimers'[tokenVersion] = pollTimers[tokenVersion]
               /\ inflight'[tokenVersion] = inflight[tokenVersion]
               /\ fetchedRepos'[tokenVersion] = fetchedRepos[tokenVersion]]_vars

\* C20 witness: after the token change, the response of the unmounted
\* instance for a/b has arrived (it left a retry timer there, which the
\* unmount would have cleared) while the new instance's entry for a/b is
\* still Loading with its own fetch in flight.
C20_Witness ==
  /\ tokenVersion = 1
  /\ repos = << [owner |-> "a", name |-> "b"] >>
  /\ inflight[0]["a/b"] = 0 /\ timers[0]["a/b"] = 1
  /\ inflight[1]["a/b"] = 1
  /\ MapGet(Rendered, "a/b").loading

\* C21: every repository whose entry is computing is named in the
\* "Computing stats for ..." line and has no line in the error list, and
\* the "No ... data available" message is not shown while any entry is
\* computing.
C21_ComputingShown ==
  LET shown == ShownComputing(metric, Rendered, repos)
      listed == ShownErrors(Rendered, repos)
  IN /\ \A j \in 1..Len(Rendered) :
          Rendered[j].computing
            => /\ \E n \in 1..Len(shown) : shown[n] = KeyOf(Rendered[j].repo)
               /\ \A n \in 1..Len(listed) :
                    listed[n].repo # KeyOf(Rendered[j].repo)
     /\ (\E j \in 1..Len(Rendered) : Rendered[j].computing)
          => ~ShowsNoData(metric, Rendered, repos)

\* C22: a save whose input is empty or only whitespace leaves no stored
\* token, which is what Remove leaves; a save of any other input stores
\* the part of the input from its first to its last character that is not
\* whitespace, and nothing but whitespace is left out.
C22_SaveToken ==
  [][/\ (isEditing /\ tokenVersion' # tokenVersion)
        => IF \A j \in 1..Len(inputValue) : inputValue[j] \in Whitespace
             THEN /\ ~hasToken'
                  /\ storedToken' = NoToken
             ELSE /\ hasToken'
                  /\ \E i, j \in 1..Len(inputValue) :
                       /\ i <= j
                       /\ storedToken'.value = SubSeq(inputValue, i, j)
                       /\ inputValue[i] \notin Whitespace
                       /\ inputValue[j] \notin Whitespace
                       /\ \A n \in 1..Len(inputValue) :
                            (n < i \/ n > j) => inputValue[n] \in Whitespace
     /\ (~isEditing /\ tokenVersion' # tokenVersion)
        => /\ ~hasToken'
           /\ storedToken' = NoToken]_vars

\* C22 witness: a token of two characters is stored; the slot did not hold
\* it when the page was loaded, so a save stored it.
C22_Witness ==
  /\ tokenVersion = 1 /\ ~isEditing
  /\ storedToken = [has |-> TRUE, value |-> << "x", "x" >>]

\* C23: in every instance and for every key, at most one retry timer is
\* pending, and a pending timer is the one pollTimers records for the key;
\* and after a fetch of the key has resolved with a series, no retry timer
\* is pending for the key.
C23_OneRecordedTimer ==
  /\ [](\A i \in Instances : \A k \in Keys :
          /\ timers[i][k] <= 1
          /\ timers[i][k] = 1 => pollTimers[i][k] = "pending")
  /\ [][\A i \in Instances : \A k \in Keys :
          (/\ Settled(i, k)
           /\ MapHas(repoData'[i], k)
           /\ HasData(MapGet(repoData'[i], k)))
            => timers'[i][k] = 0]_vars

\* An entry that holds the outcome of a response: not loading, and either
\* a series, or computing, or a message, and nothing of the other two.
HoldsOutcome(e) ==
  /\ ~e.loading
  /\ \/ e.data # Null /\ ~e.computing /\ e.error = Null
     \/ e.data = Null /\ e.computing /\ e.error = Null
     \/ e.data = Null /\ ~e.computing /\ e.error # Null

\* C24: a response for one key leaves the entry of every other key, and
\* the order of the entries, as they were, and leaves its own key with an
\* entry that holds an outcome; and the entry of a repository that stays
\* selected changes only in a step that settles a response for its key or
\* issues a fetch for it, so it holds the outcome of the latest response
\* until then.
C24_NoLostUpdate ==
  /\ [][\A k \in Keys :
          Settled(tokenVersion, k)
            => /\ \A other \in Keys \ {k} :
                    SelectSeq(repoData'[tokenVersion], LAMBDA e : e.key = other)
                      = Entries(other)
               /\ SelectSeq(repoData'[tokenVersion], LAMBDA e : e.key # k)
                    = SelectSeq(Rendered, LAMBDA e : e.key # k)
               /\ MapHas(repoData'[tokenVersion], k)
               /\ HoldsOutcome(MapGet(repoData'[tokenVersion], k))]_vars
  /\ [][\A k \in Keys :
          (/\ tokenVersion' = tokenVersion
           /\ k \in Selected /\ k \in CurrentKeys(repos')
           /\ ~Settled(tokenVersion, k) /\ ~FetchIssued(tokenVersion, k))
            => SelectSeq(repoData'[tokenVersion], LAMBDA e : e.key = k)
                 = Entries(k)]_vars

\* C24 witness: the responses for a/b and c/d have both arrived and
\* each entry holds the series of its own response.
C24_Witness ==
  /\ repos = << [owner |-> "a", name |-> "b"], [owner |-> "c", name |-> "d"] >>
  /\ MapHas(Rendered, "a/b") /\ MapGet(Rendered, "a/b").data = "s2"
  /\ MapHas(Rendered, "c/d") /\ MapGet(Rendered, "c/d").data = "s1"
  /\ \A k \in Keys : inflight[tokenVersion][k] = 0
  /\ fetchCalls = 2

\* C25: in CommitChart and ContributorsChart, a response that leaves the
\* repository's entry without a series is classified one of two ways:
\* either the entry is computing, without message, and one more retry
\* timer is pending for the key, recorded in pollTimers; or the entry is
\* not computing, holds the message of the error, which is not a
\* StatsComputingError, and the timers of the key are as they were.
C25_Classification ==
  [][\A k \in Keys :
       (Polls(metric) /\ Settled(tokenVersion, k))
         => LET e == MapGet(repoData'[tokenVersion], k)
                i == tokenVersion
            IN /\ MapHas(repoData'[tokenVersion], k)
               /\ ~HasData(e)
                    => \/ /\ e.computing /\ ~e.loading /\ e.error = Null
                          /\ timers'[i][k] = timers[i][k] + 1
                          /\ pollTimers'[i][k] = "pending"
                       \/ /\ ~e.computing /\ ~e.loading
                          /\ e.error \in { h.message : h \in HardErrors }
                          /\ e.error # StatsComputingError.message
                          /\ timers'[i][k] = timers[i][k]
                          /\ pollTimers'[i][k] = pollTimers[i][k]]_vars

\* C25 witness: of two selected repositories, the fetch of one was
\* rejected with StatsComputingError (Computing, one timer) and the fetch
\* of the other with another error (Failed, no timer).
C25_Witness ==
  /\ Polls(metric)
  /\ repos = << [owner |-> "a", name |-> "b"], [owner |-> "c", name |-> "d"] >>
  /\ IsComputing("a/b") /\ timers[tokenVersion]["a/b"] = 1
  /\ IsFailed("c/d") /\ timers[tokenVersion]["c/d"] = 0
  /\ fetchCalls = 2

LoadingAndFetched(rd, fl, k) ==
  /\ MapHas(rd, k)
  /\ MapGet(rd, k).loading
  /\ fl[k] > 0

\* C27: when the page is loaded and when a token change mounts a new
\* instance, every selected repository has a Loading entry and a fetch in
\* flight; a repository that enters the selection gets a Loading entry and
\* a fetch issued for it in that step; and in every state every selected
\* repository has an entry.
C27_FirstObserved ==
  /\ \A k \in Selected : LoadingAndFetched(Rendered, inflight[tokenVersion], k)
  /\ [][tokenVersion' # tokenVersion
          => \A k \in CurrentKeys(repos') :
               /\ LoadingAndFetched(repoData'[tokenVersion'],
                                    inflight'[tokenVersion'], k)
               /\ FetchIssued(tokenVersion', k)]_vars
  /\ [][\A k \in Keys :
          (tokenVersion' = tokenVersion /\ k \notin Selected
             /\ k \in CurrentKeys(repos'))
            => /\ LoadingAndFetched(repoData'[tokenVersion],
                                    inflight'[tokenVersion], k)
               /\ FetchIssued(tokenVersion, k)]_vars
  /\ [](\A k \in Selected : MapHas(Rendered, k))

\* C28: when some entry holds a non-empty series, the rows of the merged
\* dataset are the weeks of one such series, the base: all of them, or its
\* last WeekWindow ones, one row per week, in the order of the series, each
\* row with the timestamp of its week; and a base of at most WeekWindow
\* weeks gives as many rows as it has weeks, the last row being its most
\* recent week.
C28_RowsOfBase ==
  LET chart == Chart
      rows == Len(chart)
  IN (\E j \in 1..Len(Rendered) :
        HasData(Rendered[j]) /\ Len(SeriesOf(Rendered[j].data)) > 0)
       => \E j \in 1..Len(Rendered) :
            /\ HasData(Rendered[j])
            /\ LET base == SeriesOf(Rendered[j].data)
                   n == Len(base)
               IN /\ n > 0
                  /\ rows = n \/ (n > WeekWindow /\ rows = WeekWindow)
                  /\ \A r \in 1..rows :
                       chart[r].weekTimestamp = base[n - rows + r].week
                  /\ n <= WeekWindow
                       => rows = n /\ chart[rows].weekTimestamp = base[n].week

\* C28 witness: the base is the series of three weeks and the other
\* repository holds the series of 53 weeks; the dataset has three rows.
C28_Witness ==
  /\ Len(Rendered) = 2
  /\ Rendered[1].data = "s2" /\ Rendered[2].data = "s1"
  /\ MapKeys(Rendered) = Selected
  /\ Len(Chart) = 3

\* C29: once the entry of a repository holds a series, it holds that
\* series, and is neither loading nor computing nor failed, after every
\* step that leaves the repository selected and the instance mounted.
C29_ReadyStable ==
  [][\A k \in Keys :
       (/\ tokenVersion' = tokenVersion
        /\ k \in Selected /\ k \in CurrentKeys(repos')
        /\ MapHas(Rendered, k)
        /\ LET e == MapGet(Rendered, k)
           IN HasData(e) /\ ~e.loading /\ ~e.computing /\ e.error = Null)
         => /\ MapHas(repoData'[tokenVersion], k)
            /\ MapGet(repoData'[tokenVersion], k) = MapGet(Rendered, k)]_vars

\* C30: with a non-empty selection exactly one of the four panels is
\* displayed: the loading panel when some entry is loading; else the line
\* chart when the merged dataset has rows, which it has when some entry
\* holds a non-empty series; else the waiting panel when some entry is
\* computing; else the no-data message.
C30_OnePanel ==
  Len(repos) > 0 =>
    LET loading == \E j \in 1..Len(Rendered) : Rendered[j].loading
        computing == \E j \in 1..Len(Rendered) : Rendered[j].computing
        rows == \E j \in 1..Len(Rendered) :
                  HasData(Rendered[j]) /\ Len(SeriesOf(Rendered[j].data)) > 0
        shown ==
          (IF ShowsLoading(Rendered, repos) THEN {"loading"} ELSE {})
          \cup (IF ShowsChart(metric, Rendered, repos) THEN {"chart"} ELSE {})
          \cup (IF ShowsWaiting(metric, Rendered, repos) THEN {"waiting"} ELSE {})
          \cup (IF ShowsNoData(metric, Rendered, repos) THEN {"nodata"} ELSE {})
    IN /\ Cardinality(shown) = 1
       /\ shown = { IF loading THEN "loading"
                    ELSE IF rows THEN "chart"
                    ELSE IF computing THEN "waiting"
                    ELSE "nodata" }

\* C30 witness: CommitChart with one selected repository that is
\* computing and no series anywhere: the waiting panel alone is displayed.
C30_Witness ==
  /\ metric = "commits"
  /\ Len(repos) = 1
  /\ IsComputing(KeyOf(repos[1]))
  /\ ShowsWaiting(metric, Rendered, repos)
  /\ ~ShowsNoData(metric, Rendered, repos)

\* C31: in IssuesChart every entry is loading, or holds a series, or holds
\* a message, one of the three and never computing; no retry timer is
\* pending or recorded in any instance; a response that leaves no series
\* leaves the entry Failed with the message of the error, whatever the
\* error is; and a fetch is issued for a repository once when it is
\* selected as the instance mounts, once when it enters the selection,
\* and not while it stays selected.
C31_IssuesNeverPoll ==
  /\ metric = "issues" => \A k \in Selected : inflight[tokenVersion][k] = 1
  /\ [](metric = "issues" =>
          /\ \A i \in Instances : \A k \in Keys :
               timers[i][k] = 0 /\ pollTimers[i][k] = "none"
          /\ \A j \in 1..Len(Rendered) :
               LET e == Rendered[j]
               IN /\ ~e.computing
                  /\ \/ e.loading /\ ~HasData(e) /\ e.error = Null
                     \/ ~e.loading /\ HasData(e) /\ e.error = Null
                     \/ ~e.loading /\ ~HasData(e) /\ e.error # Null)
  /\ [][metric = "issues" =>
          \A k \in Keys :
            (Settled(tokenVersion, k)
               /\ ~HasData(MapGet(repoData'[tokenVersion], k)))
              => LET e == MapGet(repoData'[tokenVersion], k)
                 IN /\ e.error \in { err.message : err \in Errors }
                    /\ ~e.loading /\ ~e.computing
                    /\ ~FetchIssued(tokenVersion, k)]_vars
  /\ [][metric = "issues" =>
          \A k \in Keys :
            /\ (tokenVersion' # tokenVersion /\ k \in CurrentKeys(repos'))
                 => inflight'[tokenVersion'][k] = 1
            /\ (tokenVersion' = tokenVersion /\ k \notin Selected
                  /\ k \in CurrentKeys(repos'))
                 => inflight'[tokenVersion][k] = inflight[tokenVersion][k] + 1
            /\ (tokenVersion' = tokenVersion /\ k \in Selected
                  /\ k \in CurrentKeys(repos'))
                 => ~FetchIssued(tokenVersion, k)]_vars

====
